---- MODULE Spec2Model ----
(***************************************************************************)
(* The persona tag taxonomy of studio_app/ethereum_tags.py: the state of   *)
(* an EthereumTagValidator (persona_data, valid_tags), the three ways a    *)
(* persona definition is installed (load_persona, the default bootstrap    *)
(* and the JSON upload of render_ethereum_tagging) and the two readers,    *)
(* validate_lyrics and auto_embed_tags.                                    *)
(***************************************************************************)
EXTENDS Integers, Sequences, FiniteSets, TLC

\* ------------------------------------------------------------------ text
\* A Python str is a sequence of one-character strings.
Lowers == <<"a", "b", "c", "d", "e", "f", "g", "h", "i", "j", "k", "l", "m", "n", "o", "p", "q",
    "r", "s", "t", "u", "v", "w", "x", "y", "z">>
Uppers == <<"A", "B", "C", "D", "E", "F", "G", "H", "I", "J", "K", "L", "M", "N", "O", "P", "Q",
    "R", "S", "T", "U", "V", "W", "X", "Y", "Z">>
Others == <<"0", "1", "2", "3", "4", "5", "6", "7", "8", "9", "_", " ", "[", "]", ",", ".", "'",
    "\n">>
Alphabet == Lowers \o Uppers \o Others
Chars == {Alphabet[i] : i \in 1..Len(Alphabet)}
Code == [c \in Chars |-> CHOOSE i \in 1..Len(Alphabet) : Alphabet[i] = c]

\* str.upper() and str.lower() on the characters above: only a-z / A-Z move.
upper_char == [c \in Chars |-> IF Code[c] <= Len(Lowers) THEN Uppers[Code[c]] ELSE c]
lower_char ==
    [c \in Chars |->
        IF Code[c] > Len(Lowers) /\ Code[c] <= Len(Lowers) + Len(Uppers)
        THEN Lowers[Code[c] - Len(Lowers)] ELSE c]
upper(s) == [i \in 1..Len(s) |-> upper_char[s[i]]]
lower(s) == [i \in 1..Len(s) |-> lower_char[s[i]]]

\* Python's `sub in s` on strings.
contains(sub, s) ==
    \E i \in 0..(Len(s) - Len(sub)) : \A k \in 1..Len(sub) : s[i + k] = sub[k]

\* f"[{x}]"
bracket(x) == <<"[">> \o x \o <<"]">>

\* The least member of a non-empty set of positions.
first_position(S) == CHOOSE i \in S : \A j \in S : i <= j

\* The pattern with * in place of +: empty brackets match too.
is_match_or_empty(lyrics, i, j) == lyrics[j] = "]"

\* r'\[[^\[\]]+\]' tried at an opening bracket i, where j is the first
\* bracket of either kind after i: the class [^\[\]]+ takes the characters
\* between them, which must be at least one, and "]" must come next.
is_match(lyrics, i, j) == lyrics[j] = "]" /\ j > i + 1

\* re.findall(r'\[[^\[\]]+\]', lyrics) from position pos: the matches in
\* the order of the leftmost scan, which resumes behind a match and one
\* character further on where the pattern fails.
RECURSIVE re_findall(_, _)
re_findall(lyrics, pos) ==
    LET opens == {i \in pos..Len(lyrics) : lyrics[i] = "["}
    IN  IF opens = {} THEN <<>>
        ELSE LET i == first_position(opens)
                 stops == {j \in (i + 1)..Len(lyrics) : lyrics[j] \in {"[", "]"}}
             IN  IF stops = {} THEN <<>>
                 ELSE LET j == first_position(stops)
                      IN  IF is_match(lyrics, i, j)
                          THEN <<SubSeq(lyrics, i, j)>> \o re_findall(lyrics, j + 1)
                          ELSE re_findall(lyrics, i + 1)

\* set(re.findall(r'\[[^\[\]]+\]', lyrics)), validate_lyrics line 44
findall_tags(lyrics) ==
    LET matches == re_findall(lyrics, 1)
    IN  {matches[m] : m \in 1..Len(matches)}

\* ------------------------------------------------------- hash ordering
\* list(a_set) walks the set's hash table.  str hashes are keyed by a seed
\* drawn when the interpreter starts, so the order is fixed within one
\* process and differs between processes.  The model keeps the seed as
\* state and orders a set by a seeded hash of each member (ties by text).
HashSeeds == 0..2

RECURSIVE str_hash(_, _, _)
str_hash(s, i, h) ==
    IF i > Len(s) THEN h ELSE str_hash(s, i + 1, (h * 33 + Code[s[i]]) % 251)

RECURSIVE text_less(_, _, _)
text_less(a, b, i) ==
    IF i > Len(b) THEN FALSE
    ELSE IF i > Len(a) THEN TRUE
    ELSE IF a[i] # b[i] THEN Code[a[i]] < Code[b[i]]
    ELSE text_less(a, b, i + 1)

hash_before(a, b, seed) ==
    LET ha == str_hash(a, 1, seed)
        hb == str_hash(b, 1, seed)
    IN  ha < hb \/ (ha = hb /\ text_less(a, b, 1))

\* The member of S that list(S) yields first.
first_of(S, seed) == CHOOSE t \in S : \A u \in S \ {t} : hash_before(t, u, seed)

\* list(S)[:n] for n >= 0
RECURSIVE list_prefix(_, _, _)
list_prefix(S, seed, n) ==
    IF n = 0 \/ S = {} THEN <<>>
    ELSE LET t == first_of(S, seed)
         IN  <<t>> \o list_prefix(S \ {t}, seed, n - 1)

\* list(S)
set_order(S, seed) == list_prefix(S, seed, Cardinality(S))

\* ------------------------------------------------------- JSON values
\* A parsed JSON value is [t |-> type, v |-> payload]: a str carries its
\* text, a number the text str() gives it, a list its elements, a dict its
\* items in document order.  What is on disk is such a value, text that is
\* no JSON ("invalid") or no readable file at all ("missing").
JStr(s) == [t |-> "str", v |-> s]
JNum(s) == [t |-> "int", v |-> s]
JList(elems) == [t |-> "list", v |-> elems]
JDict(items) == [t |-> "dict", v |-> items]
Item(key, value) == [k |-> key, val |-> value]
Unparsable == [t |-> "invalid", v |-> <<>>]
Unreadable == [t |-> "missing", v |-> <<>>]


\* create_default_persona()
create_default_persona ==
    JDict(<<
        Item(<<"n", "a", "m", "e">>, JStr(<<"E", "T", "H", "E", "R", "E", "U", "M">>)),
        Item(<<"d", "e", "s", "c", "r", "i", "p", "t", "i", "o", "n">>, JStr(<<"E", "t", "h",
            "e", "r", "e", "u", "m", " ", "b", "l", "o", "c", "k", "c", "h", "a", "i", "n", " ",
            "v", "o", "i", "c", "e", " ", "p", "e", "r", "s", "o", "n", "a", " ", "w", "i", "t",
            "h", " ", "d", "e", "e", "p", " ", "t", "e", "c", "h", "n", "i", "c", "a", "l", " ",
            "a", "n", "d", " ", "p", "h", "i", "l", "o", "s", "o", "p", "h", "i", "c", "a", "l",
            " ", "u", "n", "d", "e", "r", "s", "t", "a", "n", "d", "i", "n", "g">>)),
        Item(<<"c", "o", "r", "e", "_", "t", "a", "g", "s">>, JList(<<
            JStr(<<"E", "T", "H", "E", "R", "E", "U", "M">>), JStr(<<"B", "L", "O", "C", "K",
                "C", "H", "A", "I", "N">>), JStr(<<"D", "E", "C", "E", "N", "T", "R", "A", "L",
                "I", "Z", "E", "D">>),
            JStr(<<"S", "M", "A", "R", "T", "_", "C", "O", "N", "T", "R", "A", "C", "T", "S">>),
                JStr(<<"W", "E", "B", "3">>), JStr(<<"D", "E", "F", "I">>), JStr(<<"C", "R", "Y",
                "P", "T", "O">>),
            JStr(<<"V", "I", "T", "A", "L", "I", "K">>), JStr(<<"G", "A", "S">>), JStr(<<"P",
                "R", "O", "O", "F", "_", "O", "F", "_", "S", "T", "A", "K", "E">>)>>)),
        Item(<<"t", "e", "c", "h", "n", "i", "c", "a", "l", "_", "t", "a", "g", "s">>, JList(<<
            JStr(<<"E", "V", "M">>), JStr(<<"S", "O", "L", "I", "D", "I", "T", "Y">>),
                JStr(<<"M", "E", "R", "K", "L", "E", "_", "T", "R", "E", "E">>), JStr(<<"C", "O",
                "N", "S", "E", "N", "S", "U", "S">>),
            JStr(<<"V", "A", "L", "I", "D", "A", "T", "O", "R">>), JStr(<<"S", "H", "A", "R",
                "D", "I", "N", "G">>), JStr(<<"L", "A", "Y", "E", "R", "2">>), JStr(<<"R", "O",
                "L", "L", "U", "P", "S">>),
            JStr(<<"P", "L", "A", "S", "M", "A">>), JStr(<<"S", "T", "A", "T", "E", "_", "C",
                "H", "A", "N", "N", "E", "L">>)>>)),
        Item(<<"p", "h", "i", "l", "o", "s", "o", "p", "h", "i", "c", "a", "l", "_", "t", "a",
            "g", "s">>, JList(<<
            JStr(<<"F", "R", "E", "E", "D", "O", "M">>), JStr(<<"S", "O", "V", "E", "R", "E",
                "I", "G", "N", "T", "Y">>), JStr(<<"P", "E", "R", "M", "I", "S", "S", "I", "O",
                "N", "L", "E", "S", "S">>),
            JStr(<<"T", "R", "U", "S", "T", "L", "E", "S", "S">>), JStr(<<"I", "M", "M", "U",
                "T", "A", "B", "L", "E">>), JStr(<<"T", "R", "A", "N", "S", "P", "A", "R", "E",
                "N", "T">>),
            JStr(<<"G", "L", "O", "B", "A", "L">>), JStr(<<"I", "N", "C", "L", "U", "S", "I",
                "V", "E">>)>>)),
        Item(<<"e", "n", "e", "r", "g", "y", "_", "t", "a", "g", "s">>, JList(<<
            JStr(<<"E", "L", "E", "C", "T", "R", "I", "C">>), JStr(<<"D", "I", "G", "I", "T",
                "A", "L", "_", "F", "I", "R", "E">>), JStr(<<"Q", "U", "A", "N", "T", "U",
                "M">>), JStr(<<"I", "N", "F", "I", "N", "I", "T", "E">>),
            JStr(<<"R", "E", "V", "O", "L", "U", "T", "I", "O", "N", "A", "R", "Y">>),
                JStr(<<"U", "N", "S", "T", "O", "P", "P", "A", "B", "L", "E">>), JStr(<<"F", "U",
                "T", "U", "R", "E">>),
            JStr(<<"T", "R", "A", "N", "S", "F", "O", "R", "M", "A", "T", "I", "O", "N">>)>>)),
        Item(<<"v", "o", "i", "c", "e", "_", "s", "t", "y", "l", "e", "_", "t", "a", "g", "s">>,
            JList(<<
            JStr(<<"D", "E", "E", "P">>), JStr(<<"R", "E", "S", "O", "N", "A", "N", "T">>),
                JStr(<<"A", "U", "T", "H", "O", "R", "I", "T", "A", "T", "I", "V", "E">>),
                JStr(<<"M", "Y", "S", "T", "I", "C">>),
            JStr(<<"T", "E", "C", "H", "N", "I", "C", "A", "L">>), JStr(<<"P", "A", "S", "S",
                "I", "O", "N", "A", "T", "E">>), JStr(<<"V", "I", "S", "I", "O", "N", "A", "R",
                "Y">>),
            JStr(<<"C", "O", "N", "F", "I", "D", "E", "N", "T">>)>>))
    >>)

\* ------------------------------------------------- building valid_tags
\* The outcome of a loop that may raise: the set as far as it was built.
Built(tags) == [tags |-> tags, raised |-> FALSE]
Raised(tags) == [tags |-> tags, raised |-> TRUE]

\* load_persona, line 31: isinstance(value, list) and "tags" in key.lower()
is_tag_list(key, value) == value.t = "list" /\ contains(<<"t", "a", "g", "s">>, lower(key))

\* load_persona, line 33: key == "name" and isinstance(value, str)
is_name(key, value) == key = <<"n", "a", "m", "e">> /\ value.t = "str"

\* load_tag without the upper(): the tag as written in the file
load_tag_as_written(tag) == bracket(tag)

\* load_persona, lines 32 and 34: f"[{tag.upper()}]"
load_tag(tag) == bracket(upper(tag))

\* load_persona, line 32: valid_tags.update(... for tag in value).  update
\* adds the generator's items one by one; tag.upper() raises AttributeError
\* on the first element that is no str and the items before it stay added.
RECURSIVE update_upper(_, _, _)
update_upper(tags, value, j) ==
    IF j > Len(value) THEN Built(tags)
    ELSE IF value[j].t # "str" THEN Raised(tags)
    ELSE update_upper(tags \cup {load_tag(value[j].v)}, value, j + 1)

\* load_persona, lines 30-34: the loop over persona_data.items()
RECURSIVE extract_tags(_, _, _)
extract_tags(tags, items, i) ==
    IF i > Len(items) THEN Built(tags)
    ELSE LET key == items[i].k
             value == items[i].val
         IN  IF is_tag_list(key, value)
             THEN LET r == update_upper(tags, value.v, 1)
                  IN  IF r.raised THEN r ELSE extract_tags(r.tags, items, i + 1)
             ELSE IF is_name(key, value)
             THEN extract_tags(tags \cup {load_tag(value.v)}, items, i + 1)
             ELSE extract_tags(tags, items, i + 1)

\* session_tag keeping an element that is no string as the value it is,
\* which stands here as the name of its type
session_tag_unformatted(elem) ==
    IF elem.t = "str" THEN bracket(elem.v) ELSE <<"[", elem.t, "]">>

\* render_ethereum_tagging, lines 139 and 209: f"[{tag}]" formats any
\* element with str() and never raises.
session_tag(elem) == bracket(elem.v)

\* render_ethereum_tagging, lines 137-139 (bootstrap) and 207-209 (upload):
\* the same loop, with no branch for "name".
RECURSIVE extract_session_tags(_, _, _)
extract_session_tags(tags, items, i) ==
    IF i > Len(items) THEN tags
    ELSE LET key == items[i].k
             value == items[i].val
         IN  IF value.t = "list" /\ contains(<<"t", "a", "g", "s">>, lower(key))
             THEN extract_session_tags(
                      tags \cup {session_tag(value.v[j]) : j \in 1..Len(value.v)}, items, i + 1)
             ELSE extract_session_tags(tags, items, i + 1)

\* load_persona with "return True" behind the try statement, where the
\* except branch reaches it too
load_returns_true(raised) == TRUE

\* load_persona, lines 36-39: True at the end of the try block, False from
\* the except branch, which catches every Exception
load_returns(raised) == ~raised

\* load_persona building valid_tags from the definition it is about to
\* replace
load_persona_stale(old_data, old_tags, file) ==
    IF file.t \in {"missing", "invalid"}
    THEN [persona_data |-> old_data, valid_tags |-> old_tags, ok |-> load_returns(TRUE)]
    ELSE IF old_data.t # "dict"
    THEN [persona_data |-> file, valid_tags |-> {}, ok |-> load_returns(TRUE)]
    ELSE LET r == extract_tags({}, old_data.v, 1)
         IN  [persona_data |-> file, valid_tags |-> r.tags, ok |-> load_returns(r.raised)]

\* The state load_persona(path) leaves and what it returns, lines 24-39.
load_persona(old_data, old_tags, file) ==
    IF file.t \in {"missing", "invalid"}
    THEN \* open() or json.load() raised: nothing was assigned yet
         [persona_data |-> old_data, valid_tags |-> old_tags, ok |-> load_returns(TRUE)]
    ELSE IF file.t # "dict"
    THEN \* lines 26 and 29 ran, .items() raised on line 30
         [persona_data |-> file, valid_tags |-> {}, ok |-> load_returns(TRUE)]
    ELSE LET r == extract_tags({}, file.v, 1)
         IN  [persona_data |-> file, valid_tags |-> r.tags, ok |-> load_returns(r.raised)]

\* The state the upload branch leaves, lines 202-212.
upload_persona(old_data, old_tags, file) ==
    IF file.t = "invalid"
    THEN \* json.loads() raised on line 204
         [persona_data |-> old_data, valid_tags |-> old_tags, ok |-> FALSE]
    ELSE IF file.t # "dict"
    THEN \* lines 205 and 206 ran, .items() raised on line 207
         [persona_data |-> file, valid_tags |-> {}, ok |-> FALSE]
    ELSE [persona_data |-> file,
          valid_tags |-> extract_session_tags({}, file.v, 1),
          ok |-> TRUE]

\* ------------------------------------------------------ validate_lyrics
\* [tag for tag in S if tag in keep]: the members of keep in list(S) order,
\* which orders each member by its own hash.
filter_list(S, seed, keep) == set_order(S \cap keep, seed)

\* is_invalid comparing the tag in the casing the document has
is_invalid_as_written(tag, valid_normalized) == tag \notin valid_normalized

\* validate_lyrics, line 52: tag.upper() not in valid_normalized
is_invalid(tag, valid_normalized) == upper(tag) \notin valid_normalized

\* is_missing_core without the test for "[ETHEREUM]"
is_missing_any(tag, found_normalized) == upper(tag) \notin found_normalized

\* validate_lyrics, line 53:
\* "[ETHEREUM]" in tag.upper() and tag.upper() not in found_normalized
is_missing_core(tag, found_normalized) ==
    contains(<<"[", "E", "T", "H", "E", "R", "E", "U", "M", "]">>,
        upper(tag)) /\ upper(tag) \notin found_normalized

\* coverage_of without the "if valid_normalized else 0"
coverage_unguarded(found_normalized, valid_normalized) ==
    [num |-> Cardinality(found_normalized \cap valid_normalized),
     den |-> Cardinality(valid_normalized)]

\* coverage_of counting every found tag, in the taxonomy or not
coverage_of_all_found(found_normalized, valid_normalized) ==
    IF valid_normalized # {}
    THEN [num |-> Cardinality(found_normalized), den |-> Cardinality(valid_normalized)]
    ELSE [num |-> 0, den |-> 1]

\* validate_lyrics, line 60; the ratio is kept as numerator and denominator
coverage_of(found_normalized, valid_normalized) ==
    IF valid_normalized # {}
    THEN [num |-> Cardinality(found_normalized \cap valid_normalized),
          den |-> Cardinality(valid_normalized)]
    ELSE [num |-> 0, den |-> 1]

\* validate_lyrics(lyrics), lines 41-61; tags and seed give list(set) order
validate_lyrics(tags, seed, lyrics) ==
    LET found_tags == findall_tags(lyrics)
        found_normalized == {upper(tag) : tag \in found_tags}
        valid_normalized == {upper(tag) : tag \in tags}
            IN  [used |-> set_order(found_tags, seed),
         invalid |-> filter_list(found_tags, seed,
                         {tag \in found_tags : is_invalid(tag, valid_normalized)}),
         missing_core |-> filter_list(tags, seed,
                         {tag \in tags : is_missing_core(tag, found_normalized)}),
         total_valid |-> Cardinality(tags),
         coverage |-> coverage_of(found_normalized, valid_normalized)]

\* ------------------------------------------------------ auto_embed_tags
\* core_absent searching the document in the casing it has
core_absent_as_written(lyrics) ==
    ~contains(<<"[", "E", "T", "H", "E", "R", "E", "U", "M", "]">>, lyrics)

\* auto_embed_tags, line 69: "[ETHEREUM]" not in lyrics.upper()
core_absent(lyrics) == ~contains(<<"[", "E", "T", "H", "E", "R", "E", "U", "M", "]">>,
    upper(lyrics))

\* prepend_core putting the tag line after the document
append_core(lyrics) == lyrics \o <<"[", "E", "T", "H", "E", "R", "E", "U", "M", "]", "\n">>

\* auto_embed_tags, line 70: lyrics = "[ETHEREUM]\n" + lyrics
prepend_core(lyrics) == <<"[", "E", "T", "H", "E", "R", "E", "U", "M", "]", "\n">> \o lyrics

\* tag_absent searching the document in the casing it has
tag_absent_as_written(tag, lyrics) == ~contains(upper(tag), lyrics)

\* auto_embed_tags, line 77: tag.upper() not in lyrics.upper()
tag_absent(tag, lyrics) == ~contains(upper(tag), upper(lyrics))

\* priority_tags taking list(self.valid_tags)[:inject_count - 1]
priority_tags_short(tags, seed, inject_count) ==
    list_prefix(tags, seed, IF inject_count > 0 THEN inject_count - 1 ELSE 0)

\* priority_tags taking every tag, whatever the count
priority_tags_all(tags, seed, inject_count) == set_order(tags, seed)

\* priority_tags taking list(self.valid_tags)[-inject_count:]
priority_tags_from_end(tags, seed, inject_count) ==
    LET all == set_order(tags, seed)
    IN  SubSeq(all, IF Len(all) > inject_count THEN Len(all) - inject_count + 1 ELSE 1,
               Len(all))

\* auto_embed_tags, line 73: list(self.valid_tags)[:inject_count]
priority_tags(tags, seed, inject_count) ==
    IF inject_count >= 0
    THEN list_prefix(tags, seed, inject_count)
    ELSE list_prefix(tags, seed,
             IF Cardinality(tags) + inject_count > 0
             THEN Cardinality(tags) + inject_count ELSE 0)

\* embed_missing testing each tag against the document as it was before
\* the loop
RECURSIVE embed_missing_static(_, _, _)
embed_missing_static(lyrics, priority, i) ==
    IF i > Len(priority) THEN lyrics
    ELSE LET rest == embed_missing_static(lyrics, priority, i + 1)
         IN  IF tag_absent(priority[i], lyrics)
             THEN lyrics \o <<"\n">> \o priority[i]
                      \o SubSeq(rest, Len(lyrics) + 1, Len(rest))
             ELSE rest

\* auto_embed_tags, lines 76-78: the loop over priority_tags
RECURSIVE embed_missing(_, _, _)
embed_missing(lyrics, priority, i) ==
    IF i > Len(priority) THEN lyrics
    ELSE embed_missing(
             IF tag_absent(priority[i], lyrics) THEN lyrics \o <<"\n">> \o priority[i] ELSE lyrics,
             priority, i + 1)

\* auto_embed_tags without the "if not self.valid_tags" return
auto_embed_tags_unguarded(tags, seed, lyrics, inject_count) ==
    embed_missing(
        IF core_absent(lyrics) THEN prepend_core(lyrics) ELSE lyrics,
        priority_tags(tags, seed, inject_count), 1)

\* auto_embed_tags(lyrics, inject_count), lines 63-80
auto_embed_tags(tags, seed, lyrics, inject_count) ==
    IF tags = {} THEN lyrics
    ELSE embed_missing(
             IF core_absent(lyrics) THEN prepend_core(lyrics) ELSE lyrics,
             priority_tags(tags, seed, inject_count), 1)

\* --------------------------------------------------------------- inputs
MaxParts == 2
MaxInject == 2
MaxKeys == 2

\* Documents: up to MaxParts pieces, among them the core tag and a persona
\* name in lower case, a taxonomy tag in both cases, a foreign tag and a
\* closing and an opening bracket that pair up with nothing.
DocParts ==
    {<<"[", "e", "t", "h", "e", "r", "e", "u", "m", "]">>, <<"[", "a", "b", "]">>,
     <<"[", "b", "]">>, <<"[", "B", "]">>, <<"[", "x", "]">>, <<"]", "[">>}

RECURSIVE docs_up_to(_)
docs_up_to(n) ==
    IF n = 0 THEN {<<>>}
    ELSE LET shorter == docs_up_to(n - 1)
         IN  shorter \cup {d \o p : d \in shorter, p \in DocParts}

\* The two documents of the worked scenarios.
HelloWorld == <<"H", "e", "l", "l", "o", " ", "w", "o", "r", "l", "d">>
HelloTagged ==
    <<"H", "e", "l", "l", "o", " ", "[", "B", "L", "O", "C", "K", "C", "H", "A", "I", "N", "]">>
        \o <<" ", "w", "o", "r", "l", "d", " ", "[", "F", "O", "O", "]">>
ScenarioDocs == {HelloWorld, HelloTagged}

Documents == docs_up_to(MaxParts) \cup ScenarioDocs
InjectCounts == 1..MaxInject

\* auto_embed_tags, line 63: inject_count: int = 6
DefaultInjectCount == 6

\* What the "Tags to inject" input can hold, line 172: 1..20, 6 at first.
ChosenCounts == (1..MaxInject) \cup {DefaultInjectCount}

\* save_audio_to_history, lines 161-162: the history keeps 10 entries
HistoryLimit == 10

\* Saves in one session, and the audio entries they are given.
MaxSaves == 12
AudioData == {"a", "b"}

\* Persona files for the reader operations: the persona of the spec's
\* scenario, one with another name and tags that differ only in case, and
\* one whose tag list holds a number.
ScenarioPersona ==
    JDict(<<Item(<<"n", "a", "m", "e">>, JStr(<<"E", "T", "H", "E", "R", "E", "U", "M">>)),
            Item(<<"c", "o", "r", "e", "_", "t", "a", "g", "s">>, JList(<<JStr(<<"B", "L", "O",
                "C", "K", "C", "H", "A", "I", "N">>), JStr(<<"W", "E", "B", "3">>)>>))>>)
OtherPersona ==
    JDict(<<Item(<<"n", "a", "m", "e">>, JStr(<<"A", "b">>)),
            Item(<<"S", "t", "y", "l", "e", "_", "T", "a", "g", "s">>, JList(<<JStr(<<"b">>),
                JStr(<<"B">>)>>))>>)
BrokenPersona ==
    JDict(<<Item(<<"c", "o", "r", "e", "_", "t", "a", "g", "s">>, JList(<<JStr(<<"b">>),
        JNum(<<"7">>)>>))>>)
SampleFiles == {ScenarioPersona, OtherPersona, BrokenPersona}

\* Persona files for the load operations: every mapping of up to MaxKeys
\* distinct keys to the values below, a JSON list, unparsable text and an
\* unreadable path.
FileKeys == {<<"n", "a", "m", "e">>, <<"c", "o", "r", "e", "_", "t", "a", "g", "s">>, <<"S", "t",
    "y", "l", "e", "_", "T", "a", "g", "s">>}
FileValues ==
    {JStr(<<"A", "b">>),
     JList(<<JStr(<<"b">>), JStr(<<"B">>)>>),
     JList(<<JStr(<<"a", "b">>), JNum(<<"7">>)>>)}

RECURSIVE items_up_to(_)
items_up_to(n) ==
    IF n = 0 THEN {<<>>}
    ELSE LET shorter == items_up_to(n - 1)
         IN  shorter \cup
             {Append(items, Item(key, value)) :
                 <<items, key, value>> \in
                     {c \in shorter \X FileKeys \X FileValues :
                         \A i \in 1..Len(c[1]) : c[1][i].k # c[2]}}

PersonaFiles ==
    {JDict(items) : items \in items_up_to(MaxKeys)}
        \cup {JList(<<JStr(<<"b">>)>>), Unparsable, Unreadable}

\* ---------------------------------------------------------------- state
VARIABLES
    persona_data,   \* EthereumTagValidator.persona_data
    valid_tags,     \* EthereumTagValidator.valid_tags
    hash_seed,      \* the interpreter's str hash seed
    in_session,     \* 'ethereum_validator' in st.session_state
    op,             \* the last operation
    load_ok,        \* whether the last load attempt succeeded
    source,         \* what the last load attempt was given to read
    lyrics,         \* the document of the last reader call
    inject_count,   \* the count of the last auto_embed_tags call
    embedded,       \* what the last auto_embed_tags call returned
    report,         \* what the last validate_lyrics call returned
    again_count,    \* the count of an auto_embed_tags call made on that result
    tags_to_inject, \* what "Tags to inject" held when a button was pressed
    history_key,    \* 'audio_history' in st.session_state
    audio_history,  \* st.session_state.audio_history
    saved           \* every entry given to save_audio_to_history so far

vars == <<persona_data, valid_tags, hash_seed, in_session, op, load_ok, source,
          lyrics, inject_count, embedded, report, again_count, tags_to_inject,
          history_key, audio_history, saved>>

validator == <<persona_data, valid_tags, hash_seed, in_session, load_ok, source>>
history == <<history_key, audio_history, saved>>

NoReport == validate_lyrics({}, 0, <<>>)

\* EthereumTagValidator.__init__(persona_path=None), lines 16-20
Init ==
    /\ persona_data = JDict(<<>>)
    /\ valid_tags = {}
    /\ hash_seed \in HashSeeds
    /\ in_session = FALSE
    /\ op = "init"
    /\ load_ok = TRUE
    /\ source = JDict(<<>>)
    /\ lyrics = <<>>
    /\ inject_count = 0
    /\ embedded = <<>>
    /\ report = NoReport
    /\ again_count = 0
    /\ tags_to_inject = 0
    /\ history_key = FALSE
    /\ audio_history = <<>>
    /\ saved = <<>>

NoCall ==
    /\ lyrics' = <<>>
    /\ inject_count' = 0
    /\ embedded' = <<>>
    /\ report' = NoReport
    /\ again_count' = 0
    /\ tags_to_inject' = 0

\* validator.load_persona(path)
LoadPersona(file) ==
    LET r == load_persona(persona_data, valid_tags, file)
    IN  /\ persona_data' = r.persona_data
        /\ valid_tags' = r.valid_tags
        /\ load_ok' = r.ok
        /\ source' = file
        /\ op' = "load_persona"
        /\ NoCall
        /\ UNCHANGED <<hash_seed, in_session>>
        /\ UNCHANGED history

\* render_ethereum_tagging, lines 131-139: the first run of a session
\* makes a validator and installs the default persona.
Bootstrap ==
    /\ ~in_session
    /\ in_session' = TRUE
    /\ persona_data' = create_default_persona
    /\ valid_tags' = extract_session_tags({}, create_default_persona.v, 1)
    /\ load_ok' = TRUE
    /\ source' = create_default_persona
    /\ op' = "bootstrap"
    /\ NoCall
    /\ UNCHANGED <<hash_seed, history>>

\* render_ethereum_tagging, lines 202-212: a persona JSON was uploaded
Upload(file) ==
    /\ in_session
    /\ file.t # "missing"
    /\ LET r == upload_persona(persona_data, valid_tags, file)
       IN  /\ persona_data' = r.persona_data
           /\ valid_tags' = r.valid_tags
           /\ load_ok' = r.ok
    /\ source' = file
    /\ op' = "upload"
    /\ NoCall
    /\ UNCHANGED <<hash_seed, in_session, history>>

LoadOps == {"load_persona", "bootstrap", "upload"}
ReaderOps == {"validate_lyrics", "auto_embed_tags", "embed_again", "embed_with"}
PressOps == {"press_auto_embed", "press_validate"}

\* validator.validate_lyrics(doc)
ValidateLyrics(doc) ==
    /\ op \notin ReaderOps
    /\ report' = validate_lyrics(valid_tags, hash_seed, doc)
    /\ op' = "validate_lyrics"
    /\ lyrics' = doc
    /\ inject_count' = 0
    /\ embedded' = <<>>
    /\ again_count' = 0
    /\ tags_to_inject' = 0
    /\ UNCHANGED <<validator, history>>

\* auto_embed_tags taking its priority tags out of valid_tags with pop()
AutoEmbedTagsPopping(doc, n) ==
    /\ op \notin ReaderOps
    /\ embedded' = auto_embed_tags(valid_tags, hash_seed, doc, n)
    /\ valid_tags' = valid_tags \ {t \in valid_tags :
                         \E i \in 1..Len(priority_tags(valid_tags, hash_seed, n)) :
                             priority_tags(valid_tags, hash_seed, n)[i] = t}
    /\ op' = "auto_embed_tags"
    /\ lyrics' = doc
    /\ inject_count' = n
    /\ report' = NoReport
    /\ again_count' = 0
    /\ tags_to_inject' = 0
    /\ UNCHANGED <<persona_data, hash_seed, in_session, load_ok, source, history>>

\* validator.auto_embed_tags(doc, n)
AutoEmbedTags(doc, n) ==
    /\ op \notin ReaderOps
    /\ embedded' = auto_embed_tags(valid_tags, hash_seed, doc, n)
    /\ op' = "auto_embed_tags"
    /\ lyrics' = doc
    /\ inject_count' = n
    /\ report' = NoReport
    /\ again_count' = 0
    /\ tags_to_inject' = 0
    /\ UNCHANGED <<validator, history>>

\* validator.auto_embed_tags on what the previous call returned, with the
\* same count
EmbedAgain ==
    /\ op = "auto_embed_tags"
    /\ embedded' = auto_embed_tags(valid_tags, hash_seed, embedded, inject_count)
    /\ op' = "embed_again"
    /\ lyrics' = embedded
    /\ UNCHANGED <<validator, history, inject_count, report, again_count, tags_to_inject>>

\* validator.auto_embed_tags on what the previous call returned, with a
\* count m of its own; lyrics stays the document of the first call
EmbedWith(m) ==
    /\ op = "auto_embed_tags"
    /\ embedded' = auto_embed_tags(valid_tags, hash_seed, embedded, m)
    /\ again_count' = m
    /\ op' = "embed_with"
    /\ UNCHANGED <<validator, history, lyrics, inject_count, report, tags_to_inject>>

\* render_ethereum_tagging, lines 158-162: "Auto-Embed Tags" pressed with
\* doc in the text area and chosen in "Tags to inject"
PressAutoEmbed(doc, chosen) ==
    /\ in_session
    /\ op \notin PressOps
    /\ doc # <<>>
    /\ embedded' = auto_embed_tags(valid_tags, hash_seed, doc, DefaultInjectCount)
    /\ inject_count' = DefaultInjectCount
    /\ tags_to_inject' = chosen
    /\ lyrics' = doc
    /\ report' = NoReport
    /\ again_count' = 0
    /\ op' = "press_auto_embed"
    /\ UNCHANGED <<validator, history>>

\* render_ethereum_tagging, lines 164-168: "Validate Tags" pressed
PressValidate(doc, chosen) ==
    /\ in_session
    /\ op \notin PressOps
    /\ doc # <<>>
    /\ report' = validate_lyrics(valid_tags, hash_seed, doc)
    /\ tags_to_inject' = chosen
    /\ lyrics' = doc
    /\ inject_count' = 0
    /\ embedded' = <<>>
    /\ again_count' = 0
    /\ op' = "press_validate"
    /\ UNCHANGED <<validator, history>>

\* The caller has taken what the reader returned; the validator is idle
\* until the next call.
Return ==
    /\ op \in ReaderOps \cup PressOps
    /\ op' = "idle"
    /\ NoCall
    /\ UNCHANGED <<validator, history>>

\* save_audio_to_history with [:10] for [-10:]
keep_first(entries) ==
    IF Len(entries) > HistoryLimit THEN SubSeq(entries, 1, HistoryLimit) ELSE entries

\* save_audio_to_history, lines 161-162: audio_history[-10:] once the list
\* is longer than 10
keep_last(entries) ==
    IF Len(entries) > HistoryLimit
    THEN SubSeq(entries, Len(entries) - HistoryLimit + 1, Len(entries))
    ELSE entries

\* SessionManager.initialize_session, lines 131-150, for 'audio_history'
InitializeSession ==
    /\ ~history_key
    /\ history_key' = TRUE
    /\ audio_history' = <<>>
    /\ UNCHANGED <<validator, op, lyrics, inject_count, embedded, report, again_count,
                   tags_to_inject, saved>>

\* SessionManager.save_audio_to_history(audio_data), lines 153-162
SaveAudioToHistory(audio_data) ==
    /\ Len(saved) < MaxSaves
    /\ history_key' = TRUE
    /\ audio_history' =
           keep_last(Append(IF history_key THEN audio_history ELSE <<>>, audio_data))
    /\ saved' = Append(saved, audio_data)
    /\ UNCHANGED <<validator, op, lyrics, inject_count, embedded, report, again_count,
                   tags_to_inject>>

Next ==
    \/ \E file \in SampleFiles : LoadPersona(file)
    \/ Bootstrap
    \/ \E file \in SampleFiles : Upload(file)
    \/ \E doc \in Documents : ValidateLyrics(doc)
    \/ \E doc \in Documents, n \in InjectCounts : AutoEmbedTags(doc, n)
    \/ EmbedAgain
    \/ Return

Spec == Init /\ [][Next]_vars

\* The load operations alone, over every persona file.
NextLoad ==
    \/ \E file \in PersonaFiles : LoadPersona(file)
    \/ Bootstrap
    \/ \E file \in PersonaFiles : Upload(file)

\* The loads never read the hash seed: one seed stands for all.
InitLoad == Init /\ hash_seed = 0

SpecLoad == InitLoad /\ [][NextLoad]_vars

\* A validator used outside the studio: load_persona, and auto_embed_tags
\* called on its own results with counts of every size.
NextCompose ==
    \/ \E file \in SampleFiles : LoadPersona(file)
    \/ \E doc \in Documents, n \in InjectCounts : AutoEmbedTags(doc, n)
    \/ \E m \in InjectCounts : EmbedWith(m)
    \/ Return

SpecCompose == Init /\ [][NextCompose]_vars

\* The tagging tab of the studio: the session's validator, the uploads and
\* the two buttons.
NextStudio ==
    \/ Bootstrap
    \/ \E file \in SampleFiles : Upload(file)
    \/ \E doc \in Documents, chosen \in ChosenCounts : PressAutoEmbed(doc, chosen)
    \/ \E doc \in Documents, chosen \in ChosenCounts : PressValidate(doc, chosen)
    \/ Return

SpecStudio == Init /\ [][NextStudio]_vars

\* The audio history of a session.
NextHistory ==
    \/ InitializeSession
    \/ \E audio_data \in AudioData : SaveAudioToHistory(audio_data)

SpecHistory == InitLoad /\ [][NextHistory]_vars

\* ---------------------------------------------------------------- claims
\* The TagSet a persona definition stands for: one bracketed, uppercased
\* entry per element of every list under a key whose lowercased name holds
\* "tags", and one for a string "name".
TagSet(data) ==
    IF data.t # "dict" THEN {}
    ELSE LET items == data.v
             TagLists == {i \in 1..Len(items) :
                             /\ items[i].val.t = "list"
                             /\ contains(<<"t", "a", "g", "s">>, lower(items[i].k))}
             Names == {i \in 1..Len(items) :
                             /\ items[i].k = <<"n", "a", "m", "e">>
                             /\ items[i].val.t = "str"}
         IN  UNION {{bracket(upper(items[i].val.v[j].v)) : j \in 1..Len(items[i].val.v)} :
                        i \in TagLists}
                 \cup {bracket(upper(items[i].val.v)) : i \in Names}

\* C1: whenever load_persona has read a definition successfully, valid_tags
\* is exactly the TagSet of that definition: the uppercased, bracketed
\* elements of its tag lists and its string name, and nothing else.
C1_LoadBuildsTagSet ==
    (op = "load_persona" /\ load_ok) => valid_tags = TagSet(persona_data)

\* C1 witness: a definition with a name and a tag list whose two elements
\* collapse into one tag was loaded.
C1_Witness ==
    /\ op = "load_persona"
    /\ load_ok
    /\ persona_data = OtherPersona
    /\ valid_tags = {<<"[", "A", "B", "]">>, <<"[", "B", "]">>}

\* C2: a load attempt that fails leaves persona_data and valid_tags as they
\* were, for load_persona and for the upload alike.
C2_FailedLoadChangesNothing ==
    [][(op' \in {"load_persona", "upload"} /\ ~load_ok')
          => (persona_data' = persona_data /\ valid_tags' = valid_tags)]_vars

\* C3: in every reachable state valid_tags is the TagSet of the current
\* persona_data.
C3_TagsFollowDefinition == valid_tags = TagSet(persona_data)

\* C4: the bootstrap and the upload build, for the definition they install,
\* the tag set load_persona builds for it.
C4_InstallPathsAgree ==
    (op \in {"bootstrap", "upload"} /\ load_ok)
        => valid_tags = load_persona(persona_data, valid_tags, persona_data).valid_tags

\* The string "name" of a definition that load_persona installed whole:
\* the states in which the persona has a core identity tag of its own.
HasName(data) ==
    data.t = "dict" /\ \E i \in 1..Len(data.v) : is_name(data.v[i].k, data.v[i].val)
NameOf(data) ==
    data.v[CHOOSE i \in 1..Len(data.v) : is_name(data.v[i].k, data.v[i].val)].val.v
CoreTag(data) == bracket(upper(NameOf(data)))
Loaded == HasName(persona_data) /\ valid_tags = TagSet(persona_data)

IsPrefix(p, s) == Len(p) <= Len(s) /\ \A k \in 1..Len(p) : s[k] = p[k]
Range(s) == {s[i] : i \in 1..Len(s)}

\* C5: with a persona named N loaded, validate_lyrics reports missing_core
\* = ['[N]' uppercased] exactly when the document holds no bracketed token
\* equal to it up to case, and an empty missing_core when it holds one.
C5_MissingCoreFollowsName ==
    (op = "validate_lyrics" /\ Loaded)
        => report.missing_core =
               IF \E tag \in findall_tags(lyrics) : upper(tag) = CoreTag(persona_data)
               THEN <<>> ELSE <<CoreTag(persona_data)>>

\* C6: with a persona named N loaded, auto_embed_tags puts '[N]' uppercased
\* and a newline in front of a document that does not hold that tag up to
\* case.
C6_CorePrependFollowsName ==
    (op = "auto_embed_tags" /\ Loaded
        /\ ~contains(CoreTag(persona_data), upper(lyrics)))
        => IsPrefix(CoreTag(persona_data) \o <<"\n">> \o lyrics, embedded)

\* The tags of a definition in the order load_persona walks it, each at
\* its first occurrence.
RECURSIVE LoadOrder(_, _, _, _)
LoadOrder(items, i, j, seen) ==
    IF i > Len(items) THEN seen
    ELSE LET key == items[i].k
             value == items[i].val
             add(tag) == IF tag \in Range(seen) THEN seen ELSE Append(seen, tag)
         IN  IF is_tag_list(key, value)
             THEN IF j > Len(value.v) THEN LoadOrder(items, i + 1, 1, seen)
                  ELSE LoadOrder(items, i, j + 1, add(bracket(upper(value.v[j].v))))
             ELSE IF is_name(key, value)
             THEN LoadOrder(items, i + 1, 1, add(bracket(upper(value.v))))
             ELSE LoadOrder(items, i + 1, 1, seen)

FirstN(s, n) == SubSeq(s, 1, IF n < Len(s) THEN n ELSE Len(s))

\* C7: auto_embed_tags considers the first inject_count tags in the order
\* in which the load walked the definition, whatever process runs it.
C7_PriorityInLoadOrder ==
    (op = "auto_embed_tags" /\ persona_data.t = "dict"
        /\ valid_tags = TagSet(persona_data) /\ valid_tags # {})
        => embedded =
               embed_missing(
                   IF core_absent(lyrics) THEN prepend_core(lyrics) ELSE lyrics,
                   FirstN(LoadOrder(persona_data.v, 1, 1, <<>>), inject_count), 1)

\* C8: auto_embed_tags run on its own result with the same count and the
\* same taxonomy returns that result unchanged.
C8_EmbedIdempotent == op = "embed_again" => embedded = lyrics

\* C8 witness: the first call inserted a line and the second call ran.
C8_Witness ==
    /\ op = "embed_again"
    /\ valid_tags # {}
    /\ contains(<<"\n">>, lyrics)
    /\ \E tag \in valid_tags : tag # upper(tag)

\* s is a run of lines, each a newline and then a member of tags
RECURSIVE IsTagLines(_, _)
IsTagLines(s, tags) ==
    \/ s = <<>>
    \/ \E tag \in tags :
           /\ IsPrefix(<<"\n">> \o tag, s)
           /\ IsTagLines(SubSeq(s, Len(tag) + 2, Len(s)), tags)

\* C9: what auto_embed_tags returns is P + T + S: the document T whole and
\* in one piece, P empty or the core tag line, S a run of newline-prefixed
\* taxonomy tags.
C9_EmbedOnlyAdds ==
    op = "auto_embed_tags"
        => \E P \in {<<>>, <<"[", "E", "T", "H", "E", "R", "E", "U", "M", "]", "\n">>} :
               /\ IsPrefix(P \o lyrics, embedded)
               /\ IsTagLines(SubSeq(embedded, Len(P) + Len(lyrics) + 1, Len(embedded)),
                             valid_tags)

\* C9 witness: a non-empty document got the core line in front and a tag
\* line behind.
C9_Witness ==
    /\ op = "auto_embed_tags"
    /\ lyrics # <<>>
    /\ IsPrefix(<<"[", "E", "T", "H", "E", "R", "E", "U", "M", "]", "\n">> \o lyrics, embedded)
    /\ Len(embedded) > Len(lyrics) + Len(<<"[", "E", "T", "H", "E", "R", "E", "U", "M", "]", "\n">>)

\* C10: the invalid list holds exactly the found tags whose uppercased form
\* is the uppercased form of no member of valid_tags, each once.
C10_InvalidIsForeign ==
    op = "validate_lyrics"
        => /\ Range(report.invalid) =
                  {tag \in findall_tags(lyrics) :
                      \A v \in valid_tags : upper(v) # upper(tag)}
           /\ Len(report.invalid) = Cardinality(Range(report.invalid))

\* C10 witness: a document with a foreign tag and a taxonomy tag written
\* in another casing than the taxonomy has it.
C10_Witness ==
    /\ op = "validate_lyrics"
    /\ report.invalid # <<>>
    /\ \E tag \in Range(report.used) :
           /\ tag \notin Range(report.invalid)
           /\ tag \notin valid_tags

\* The bracketed tokens of a text: every stretch that opens with "[", ends
\* with "]" and holds one or more characters, none a bracket, in between.
Tokens(text) ==
    {SubSeq(text, p[1], p[2]) : p \in
        {q \in (1..Len(text)) \X (1..Len(text)) :
            /\ q[1] + 1 < q[2]
            /\ text[q[1]] = "["
            /\ text[q[2]] = "]"
            /\ \A k \in (q[1] + 1)..(q[2] - 1) : text[k] \notin {"[", "]"}}}

ETHEREUM_LINE == <<"[", "E", "T", "H", "E", "R", "E", "U", "M", "]", "\n">>

\* C11: the coverage validate_lyrics reports is a ratio between 0 and 1,
\* with a denominator that is never zero, and it is 0 when valid_tags is
\* empty.
C11_CoverageInUnitInterval ==
    op = "validate_lyrics"
        => /\ report.coverage.den > 0
           /\ 0 <= report.coverage.num
           /\ report.coverage.num <= report.coverage.den
           /\ (valid_tags = {} => report.coverage.num = 0)

\* C11 witness: the document holds one taxonomy tag in two casings and the
\* taxonomy, which has that tag alone up to case, is covered once.
C11_Witness ==
    /\ op = "validate_lyrics"
    /\ {<<"[", "b", "]">>, <<"[", "B", "]">>} \subseteq Range(report.used)
    /\ {upper(tag) : tag \in valid_tags} = {<<"[", "B", "]">>}
    /\ report.coverage = [num |-> 1, den |-> 1]

\* C12: the coverage is the number of distinct uppercased found tags that
\* are uppercased taxonomy tags, over the number of distinct uppercased
\* taxonomy tags.
C12_CoverageIsMatchedShare ==
    (op = "validate_lyrics" /\ valid_tags # {})
        => LET Found == {upper(tag) : tag \in Tokens(lyrics)}
               Valid == {upper(tag) : tag \in valid_tags}
           IN  report.coverage.num * Cardinality(Valid)
                   = Cardinality({tag \in Found : tag \in Valid}) * report.coverage.den

\* C12 witness: two tags found, one of them among three taxonomy tags.
C12_Witness ==
    /\ op = "validate_lyrics"
    /\ Len(report.used) = 2
    /\ Len(report.invalid) = 1
    /\ report.coverage = [num |-> 1, den |-> 3]

\* C13: the used list holds every bracketed token of the document once, as
\* written; brackets that hold nothing or pair up with nothing add nothing.
C13_UsedIsEveryToken ==
    op = "validate_lyrics"
        => /\ Range(report.used) = Tokens(lyrics)
           /\ Len(report.used) = Cardinality(Tokens(lyrics))

\* C13 witness: a document of an unopened "]", an empty "[]" and an
\* unclosed "[" was validated and nothing was found in it.
C13_Witness ==
    /\ op = "validate_lyrics"
    /\ lyrics = <<"]", "[", "]", "[">>
    /\ report.used = <<>>

\* C14: load_persona returns False for an unreadable path, for text that is
\* no JSON and for JSON that is no mapping, and returns True only when the
\* definition it read is installed with its TagSet.
C14_LoadReportsOutcome ==
    op = "load_persona"
        => /\ load_ok \in BOOLEAN
           /\ source.t # "dict" => ~load_ok
           /\ load_ok => /\ persona_data = source
                         /\ valid_tags = TagSet(source)

\* C14 witness: load_persona was given a JSON list and returned False.
C14_Witness ==
    /\ op = "load_persona"
    /\ source.t = "list"
    /\ ~load_ok

\* C15: after a successful load, by load_persona or by upload, valid_tags
\* is the TagSet of the definition just loaded, and no tag of the taxonomy
\* before it stays unless that definition has it.
C15_LoadReplacesWholesale ==
    [][(op' \in {"load_persona", "upload"} /\ load_ok')
          => /\ valid_tags' = TagSet(source')
             /\ \A tag \in valid_tags \cap valid_tags' : tag \in TagSet(source')]_vars

\* C16: load_persona given again what it was given the time before leaves
\* persona_data and valid_tags as the first load left them.
C16_LoadIdempotent ==
    [][(op = "load_persona" /\ op' = "load_persona" /\ source' = source)
          => (persona_data' = persona_data /\ valid_tags' = valid_tags)]_vars

\* C16 witness: a definition with tags was loaded, and loading it again is
\* the step the formula is about.
C16_Witness ==
    /\ op = "load_persona"
    /\ load_ok
    /\ source = persona_data
    /\ Cardinality(valid_tags) > 1

\* C17: a validate_lyrics or auto_embed_tags call leaves persona_data and
\* valid_tags as they were, and what validate_lyrics returns is fixed by
\* the document and the taxonomy the call found.
C17_ReadersLeaveTaxonomy ==
    [][op' \in ReaderOps
          => /\ persona_data' = persona_data
             /\ valid_tags' = valid_tags
             /\ op' = "validate_lyrics"
                    => report' = validate_lyrics(valid_tags, hash_seed, lyrics')]_vars

\* C17 witness: two reader calls in a row on a taxonomy with tags, the
\* first of which had tags to insert.
C17_Witness ==
    /\ op = "embed_again"
    /\ Cardinality(valid_tags) > 1
    /\ Len(embedded) > Len(ETHEREUM_LINE)

\* What str.upper(), the "in" of two texts and re.findall accept: a text.
is_text(value) == value \in Seq(Chars)

\* C18: validate_lyrics and auto_embed_tags never raise: in every state the
\* loads can leave, a failed load included, each member of valid_tags is a
\* text, so every upper() and substring test is defined, the ratio
\* validate_lyrics forms has a denominator other than zero, and what the two
\* return is a complete report and a text.
C18_ReadersNeverRaise ==
    /\ \A tag \in valid_tags : is_text(tag)
    /\ op = "validate_lyrics"
          => /\ report.coverage.den # 0
             /\ \A i \in 1..Len(report.used) : is_text(report.used[i])
             /\ report.total_valid = Cardinality(valid_tags)
    /\ op \in {"auto_embed_tags", "embed_again"} => is_text(embedded)

\* C18 witness: after a load that failed part way, a document whose
\* brackets are unbalanced and nested was validated.
C18_Witness ==
    /\ op = "validate_lyrics"
    /\ ~load_ok
    /\ valid_tags # {}
    /\ lyrics = <<"]", "[", "[", "b", "]">>
    /\ Len(report.used) = 1

\* C19: auto_embed_tags returns the document, with the core tag line first
\* where it was absent, followed by "\n" and the tag for exactly those
\* priority tags, taken in order, whose upper case is not in the upper case
\* of the document as it stands when their turn comes.
C19_AppendsMissingOnly ==
    (op \in {"auto_embed_tags", "embed_again"} /\ valid_tags # {})
        => LET priority == priority_tags(valid_tags, hash_seed, inject_count)
               base == IF contains(<<"[", "E", "T", "H", "E", "R", "E", "U", "M", "]">>,
                                   upper(lyrics))
                       THEN lyrics ELSE ETHEREUM_LINE \o lyrics
               Running[i \in 0..Len(priority)] ==
                   IF i = 0 THEN base
                   ELSE IF contains(upper(priority[i]), upper(Running[i - 1]))
                        THEN Running[i - 1]
                        ELSE Running[i - 1] \o <<"\n">> \o priority[i]
           IN  embedded = Running[Len(priority)]

\* C19 witness: two priority tags that differ in case only met an empty
\* document; the first was appended and, being there, kept the second out.
C19_Witness ==
    /\ op = "auto_embed_tags"
    /\ lyrics = <<>>
    /\ valid_tags = {<<"[", "b", "]">>, <<"[", "B", "]">>}
    /\ inject_count = 2
    /\ Len(embedded) = Len(ETHEREUM_LINE) + 4

\* C20: with valid_tags empty, auto_embed_tags returns the document it was
\* given, for every document and every inject_count.
C20_EmptyTaxonomyEmbedsNothing ==
    (op = "auto_embed_tags" /\ valid_tags = {}) => embedded = lyrics

\* C20 witness: a document without the core tag went through
\* auto_embed_tags with valid_tags empty and a count of 2.
C20_Witness ==
    /\ op = "auto_embed_tags"
    /\ valid_tags = {}
    /\ inject_count = 2
    /\ lyrics = <<"[", "x", "]">>
    /\ embedded = lyrics

\* The persona of the worked scenarios is installed with its TagSet.
ScenarioLoaded ==
    persona_data = ScenarioPersona /\ valid_tags = TagSet(ScenarioPersona)

\* C21: with the scenario persona loaded, auto_embed_tags("Hello world", 2)
\* returns "[ETHEREUM]\nHello world\n[BLOCKCHAIN]\n[WEB3]".
C21_ScenarioEmbed ==
    (op = "auto_embed_tags" /\ ScenarioLoaded /\ lyrics = HelloWorld /\ inject_count = 2)
        => embedded = ETHEREUM_LINE \o HelloWorld
                          \o <<"\n", "[", "B", "L", "O", "C", "K", "C", "H", "A", "I", "N", "]">>
                          \o <<"\n", "[", "W", "E", "B", "3", "]">>

\* How many times sub occurs in text.
Occurrences(sub, text) ==
    Cardinality({i \in 1..(Len(text) - Len(sub) + 1) :
                    SubSeq(text, i, i + Len(sub) - 1) = sub})

CoreCount(text) == Occurrences(<<"[", "E", "T", "H", "E", "R", "E", "U", "M", "]">>, upper(text))

\* C22: a document that holds "[ETHEREUM]" somewhere, in whatever casing,
\* comes back from auto_embed_tags with nothing in front of it and as many
\* core tags as it had; a document without one comes back with one; a call
\* on the result of a call adds none.
C22_OneCoreTag ==
    op \in {"auto_embed_tags", "embed_again"}
        => /\ CoreCount(lyrics) > 0
                  => (IsPrefix(lyrics, embedded) /\ CoreCount(embedded) = CoreCount(lyrics))
           /\ CoreCount(lyrics) = 0 => CoreCount(embedded) <= 1
           /\ op = "embed_again" => CoreCount(embedded) = CoreCount(lyrics)

\* C22 witness: a document with "[ethereum]" in lower case behind another
\* tag went through auto_embed_tags and got tag lines appended.
C22_Witness ==
    /\ op = "auto_embed_tags"
    /\ lyrics = <<"[", "x", "]", "[", "e", "t", "h", "e", "r", "e", "u", "m", "]">>
    /\ Len(embedded) > Len(lyrics)
    /\ CoreCount(embedded) = 1

\* C23: with the scenario persona loaded, validate_lyrics("Hello
\* [BLOCKCHAIN] world [FOO]") reports used = [BLOCKCHAIN] and [FOO], invalid
\* = [FOO], missing_core = [ETHEREUM] and a coverage of 1/3.
C23_ScenarioValidate ==
    (op = "validate_lyrics" /\ ScenarioLoaded /\ lyrics = HelloTagged)
        => /\ Range(report.used) = {<<"[", "B", "L", "O", "C", "K", "C", "H", "A", "I", "N", "]">>,
                                    <<"[", "F", "O", "O", "]">>}
           /\ Len(report.used) = 2
           /\ report.invalid = <<<<"[", "F", "O", "O", "]">>>>
           /\ report.missing_core = <<<<"[", "E", "T", "H", "E", "R", "E", "U", "M", "]">>>>
           /\ report.coverage.num * 3 = report.coverage.den

\* C23 witness: the scenario document was validated against the three
\* tags of the scenario persona.
C23_Witness ==
    /\ op = "validate_lyrics"
    /\ ScenarioLoaded
    /\ lyrics = HelloTagged
    /\ report.total_valid = 3

\* C24: a validate_lyrics or auto_embed_tags call never finds persona_data
\* replaced and valid_tags not yet rebuilt from it: the taxonomy it reads
\* is the whole tag set of the definition installed, as load_persona or the
\* session branch builds it.
C24_ReadersSeeWholeTaxonomy ==
    op \in ReaderOps
        => /\ persona_data.t = "dict"
           /\ valid_tags \in {TagSet(persona_data),
                               extract_session_tags({}, persona_data.v, 1)}

\* C25: every tag validate_lyrics calls invalid in what auto_embed_tags
\* returned is one it calls invalid in the document auto_embed_tags was
\* given.
C25_EmbedAddsNoInvalid ==
    (op = "auto_embed_tags" /\ load_ok /\ valid_tags # {})
        => Range(validate_lyrics(valid_tags, hash_seed, embedded).invalid)
               \subseteq Range(validate_lyrics(valid_tags, hash_seed, lyrics).invalid)

\* C26: auto_embed_tags with count m on what auto_embed_tags with count n
\* returned for T, the taxonomy and its order being the same, returns what
\* the larger of the two counts returns for T; when m is the larger, it
\* adds to the first result the tags at positions n+1..m that are absent
\* when their turn comes.
C26_EmbedComposes ==
    op = "embed_with"
        => LET larger == IF inject_count < again_count THEN again_count ELSE inject_count
               first == auto_embed_tags(valid_tags, hash_seed, lyrics, inject_count)
               priority == priority_tags(valid_tags, hash_seed, again_count)
               Running[i \in inject_count..Len(priority)] ==
                   IF i = inject_count THEN first
                   ELSE IF contains(upper(priority[i]), upper(Running[i - 1]))
                        THEN Running[i - 1]
                        ELSE Running[i - 1] \o <<"\n">> \o priority[i]
           IN  /\ embedded = auto_embed_tags(valid_tags, hash_seed, lyrics, larger)
               /\ inject_count <= Len(priority) => embedded = Running[Len(priority)]
               /\ inject_count > Len(priority) => embedded = first

\* C26 witness: a call with count 2 on the result of a call with count 1
\* added a tag line.
C26_Witness ==
    /\ op = "embed_with"
    /\ inject_count = 1
    /\ again_count = 2
    /\ Len(embedded) > Len(auto_embed_tags(valid_tags, hash_seed, lyrics, inject_count))

\* Every taxonomy tag is "[", one or more characters that are no brackets,
\* and "]".
PlainTags ==
    \A tag \in valid_tags :
        /\ Len(tag) > 2
        /\ tag[1] = "[" /\ tag[Len(tag)] = "]"
        /\ \A k \in 2..(Len(tag) - 1) : tag[k] \notin {"[", "]"}

FullEmbed ==
    op = "auto_embed_tags" /\ PlainTags /\ inject_count >= Cardinality(valid_tags)

\* C27 as stated: when every taxonomy tag is plain and inject_count is at
\* least the size of valid_tags, validate_lyrics reports a coverage of 1
\* and no missing core tag for what auto_embed_tags returned, for every
\* document.
C27_FullEmbedFullCoverage ==
    FullEmbed
        => LET after == validate_lyrics(valid_tags, hash_seed, embedded)
           IN  /\ after.coverage.num = after.coverage.den
               /\ after.missing_core = <<>>

\* C27 amended: the same when valid_tags is not empty; with valid_tags
\* empty the document comes back as it was and the coverage reported is 0.
C27_FullEmbedFullCoverageNonEmpty ==
    FullEmbed
        => LET after == validate_lyrics(valid_tags, hash_seed, embedded)
           IN  /\ after.missing_core = <<>>
               /\ valid_tags # {} => after.coverage.num = after.coverage.den
               /\ valid_tags = {} => (after.coverage.num = 0 /\ embedded = lyrics)

\* C27 witness: both tags of a two-tag taxonomy were due for "Hello world",
\* and the result is fully covered.
C27_Witness ==
    /\ FullEmbed
    /\ Cardinality(valid_tags) = 2
    /\ lyrics = HelloWorld
    /\ Len(validate_lyrics(valid_tags, hash_seed, embedded).used) = 3

\* text is a run of at most left lines, each a newline and then a member of
\* tags that no line before it has
RECURSIVE IsDistinctTagLines(_, _, _)
IsDistinctTagLines(text, tags, left) ==
    \/ text = <<>>
    \/ /\ left > 0
       /\ \E tag \in tags :
              /\ IsPrefix(<<"\n">> \o tag, text)
              /\ IsDistinctTagLines(SubSeq(text, Len(tag) + 2, Len(text)), tags \ {tag},
                                    left - 1)

\* C28: for a count of 1 or more, what auto_embed_tags returns is the
\* document with at most one core tag line in front and at most
\* inject_count lines behind, each a newline and a member of valid_tags,
\* no member twice, and nothing else.
C28_CountBoundsInsertion ==
    (op = "auto_embed_tags" /\ inject_count >= 1)
        => \E front \in {<<>>, ETHEREUM_LINE} :
               /\ IsPrefix(front \o lyrics, embedded)
               /\ IsDistinctTagLines(
                      SubSeq(embedded, Len(front) + Len(lyrics) + 1, Len(embedded)),
                      valid_tags, inject_count)

\* C28 witness: with a count of 1 and three tags to choose from, "Hello
\* world" got the core line and one tag line.
C28_Witness ==
    /\ op = "auto_embed_tags"
    /\ inject_count = 1
    /\ Cardinality(valid_tags) > 2
    /\ lyrics = HelloWorld
    /\ Occurrences(<<"\n">>, embedded) = 2

\* C29: "Auto-Embed Tags" appends at most as many taxonomy tag lines to the
\* processed lyrics as "Tags to inject" holds when it is pressed.
C29_PressUsesChosenCount ==
    op = "press_auto_embed"
        => \E front \in {<<>>, ETHEREUM_LINE} :
               /\ IsPrefix(front \o lyrics, embedded)
               /\ IsDistinctTagLines(
                      SubSeq(embedded, Len(front) + Len(lyrics) + 1, Len(embedded)),
                      valid_tags, tags_to_inject)

\* C30: after any run of save_audio_to_history calls audio_history has at
\* most 10 entries, and they are the entries saved last, in the order in
\* which they were saved.
C30_HistoryIsLastTen ==
    /\ Len(audio_history) <= HistoryLimit
    /\ audio_history =
           SubSeq(saved,
                  IF Len(saved) > HistoryLimit THEN Len(saved) - HistoryLimit + 1 ELSE 1,
                  Len(saved))
    /\ saved # <<>> => history_key

\* C30 witness: more entries were saved than the history keeps, and the
\* history is full, with entries that differ.
C30_Witness ==
    /\ Len(saved) > HistoryLimit + 1
    /\ Len(audio_history) = HistoryLimit
    /\ saved[1] # saved[Len(saved)]
    /\ audio_history[1] # audio_history[HistoryLimit]
====
